---- MODULE Spec2Model ----
(***************************************************************************)
(* auto-yt-notify: the subscription registry kept in one KV blob, the hub  *)
(* client, the x-hub-signature verifier and the POST /callback pipeline.   *)
(* The repository holds two generations of the worker: the function style  *)
(* one (src/utils.ts with its router, unnamed/part_001) and the class      *)
(* style one (src/lib.ts with its router, unnamed/part_000).  A deployment *)
(* runs one of them; impl says which.                                      *)
(***************************************************************************)
EXTENDS Integers, Sequences, FiniteSets, TLC

VARIABLES impl, kv, req, now, nops, last, push, hub, hist

vars == <<impl, kv, req, now, nops, last, push, hub, hist>>

(* ----------------------------- bounds --------------------------------- *)
MaxTime == 1
MaxOps == 3
MaxSeqOps == 4

Impls == {"utils", "lib"}
Channels == {"UCa", "UCb"}
Requests == {"r1", "r2"}
SlotNo(r) == IF r = "r1" THEN 1 ELSE 2

(* ------------------------- program constants --------------------------- *)
BASE_TOPIC_URL == "https://www.youtube.com/xml/feeds/videos.xml?channel_id="
HUB_URL == "https://pubsubhubbub.appspot.com/subscribe"
APP_DOMAIN == "app.example"

(* ------------------------------ helpers -------------------------------- *)
RECURSIVE SelectSeqBy(_, _)
\* s.channelId of a parsed JSON item; a missing key reads as undefined
ChannelIdOf(s) == IF "channelId" \in DOMAIN s THEN s.channelId ELSE "undefined"

ChannelIds(list) == {ChannelIdOf(list[k]) : k \in DOMAIN list}

CountOf(list, channelId) == Cardinality({k \in DOMAIN list : ChannelIdOf(list[k]) = channelId})

\* a presence check that never finds the entry
Find_never(list, channelId) == FALSE

\* Array.prototype.find((s) => s.channelId === channelId), as used: found or not
Find(list, channelId) == \E k \in DOMAIN list : ChannelIdOf(list[k]) = channelId

\* a filter that keeps every entry
SelectSeqBy_keep(list, channelId) == list

\* Array.prototype.filter((s) => s.channelId !== channelId)
SelectSeqBy(list, channelId) ==
  IF list = <<>> THEN <<>>
  ELSE IF ChannelIdOf(Head(list)) # channelId
       THEN <<Head(list)>> \o SelectSeqBy(Tail(list), channelId)
       ELSE SelectSeqBy(Tail(list), channelId)

(* --------------------------- the KV blob -------------------------------- *)
\* What KV.get can return for the registry key: null (absent), the empty
\* string, text that is not JSON, JSON that is not an array, a JSON array.
Absent == [tag |-> "absent", items |-> <<>>]
EmptyString == [tag |-> "emptystr", items |-> <<>>]
Garbage == [tag |-> "garbage", items |-> <<>>]
JsonObject == [tag |-> "object", items |-> <<>>]
JsonArray(items) == [tag |-> "array", items |-> items]

\* JSON.stringify of one registry item: numbers and strings are kept, a Date
\* is written as its ISO string (and stays a string when parsed back)
StringifyItem(s) ==
  [k \in DOMAIN s |->
     IF k = "lastSubscribed" /\ "date" \in DOMAIN s[k] THEN [iso |-> s[k].date] ELSE s[k]]

\* only the newest entry written instead of the list
JSON_stringify_newest(list) ==
  JsonArray(IF list = <<>> THEN <<>> ELSE <<StringifyItem(list[Len(list)])>>)

JSON_stringify(list) == JsonArray([k \in DOMAIN list |-> StringifyItem(list[k])])

\* valibot object({channelId: string(), lastSubscribedAt: number()})
SubscriptionSchemaOK(s) ==
  /\ "channelId" \in DOMAIN s
  /\ "lastSubscribedAt" \in DOMAIN s

\* the output of the object schema keeps the declared keys only
SubscriptionSchemaOut(s) == [channelId |-> s.channelId, lastSubscribedAt |-> s.lastSubscribedAt]

(* getAllSubscriptions: kind is what the caller gets ("list", or "throw"   *)
(* when JSON.parse raises), del says whether KV.delete ran.                *)
getAllSubscriptions(blob) ==
  IF blob.tag \in {"absent", "emptystr"}
  THEN [kind |-> "list", list |-> <<>>, del |-> FALSE]
  ELSE IF blob.tag = "garbage"
  THEN [kind |-> "throw", list |-> <<>>, del |-> FALSE]
  ELSE IF blob.tag = "array" /\ \A k \in DOMAIN blob.items : SubscriptionSchemaOK(blob.items[k])
  THEN [kind |-> "list",
        list |-> [k \in DOMAIN blob.items |-> SubscriptionSchemaOut(blob.items[k])],
        del |-> FALSE]
  ELSE [kind |-> "list", list |-> <<>>, del |-> TRUE]

(* YoutubeNotifier.getAllSubscriptions: JSON.parse(blob || "[]") cast to   *)
(* Subscription[]; "nonarray" is a parsed value that is no array.          *)
YoutubeNotifier_getAllSubscriptions(blob) ==
  IF blob.tag \in {"absent", "emptystr"}
  THEN [kind |-> "list", list |-> <<>>, del |-> FALSE]
  ELSE IF blob.tag = "garbage"
  THEN [kind |-> "throw", list |-> <<>>, del |-> FALSE]
  ELSE IF blob.tag = "array"
  THEN [kind |-> "list", list |-> blob.items, del |-> FALSE]
  ELSE [kind |-> "nonarray", list |-> <<>>, del |-> FALSE]

GetAll(blob) ==
  IF impl = "utils" THEN getAllSubscriptions(blob) ELSE YoutubeNotifier_getAllSubscriptions(blob)

(* ---------------------------- hub client -------------------------------- *)
\* what fetch(HUB_URL, ...) can do: resolve with response.ok, resolve with a
\* non-2xx status, or reject (network failure)
FetchOutcomes == {"ok", "status", "network"}

\* requestSubscription: "true", "false", or "throw" when the rejection of
\* fetch propagates through the await (there is no try/catch)
requestSubscription(outcome) ==
  IF outcome = "network" THEN "throw"
  ELSE IF outcome = "ok" THEN "true"
  ELSE "false"

\* the form body of one hub request
HubBody(mode, channelId, callbackUrl) ==
  [callback |-> callbackUrl, mode |-> mode, topic |-> <<BASE_TOPIC_URL, channelId>>,
   verify |-> "sync"]

HttpsCallbackUrl == <<"https://", APP_DOMAIN, "/callback">>
BareCallbackUrl == <<APP_DOMAIN, "/callback">>

(* ------------------------- request bookkeeping -------------------------- *)
\* the hub before any request: no subscription held, no channel whose latest
\* accepted request is a subscribe
NoHub == [active |-> {}, subscribed |-> {}]

\* the hub after a request: it takes the request in when it answers with a
\* success status, and then holds or drops the subscription of that callback
\* to that topic; an error status or a failed connection leaves it as it was
HubAfter(outcome, body) ==
  IF outcome # "ok" THEN hub
  ELSE IF body.mode = "subscribe"
       THEN [active |-> hub.active \cup {<<body.callback, body.topic>>},
             subscribed |-> hub.subscribed \cup {body.topic[2]}]
       ELSE [active |-> hub.active \ {<<body.callback, body.topic>>},
             subscribed |-> hub.subscribed \ {body.topic[2]}]

NoHistory == [kept |-> {}, storeFailed |-> FALSE]

Idle ==
  [op |-> "none", channelId |-> "none", pc |-> "idle", subs |-> <<>>, out |-> <<>>,
   i |-> 0, hubReqs |-> <<>>, answer |-> "none", reports |-> 0, fails |-> 0,
   wrote |-> FALSE,
   result |-> "none", started |-> 0]

InFlight(r) == req[r].pc \in {"get", "hub", "put"}

\* what has happened so far: kept holds the channels whose latest add or
\* remove that wrote the store and returned was an add; storeFailed says
\* whether a KV.put has been rejected
Recorded(rec, result) ==
  [kept |-> IF result = "ok" /\ rec.wrote /\ rec.op = "add" THEN hist.kept \cup {rec.channelId}
            ELSE IF result = "ok" /\ rec.wrote /\ rec.op = "remove"
                 THEN hist.kept \ {rec.channelId}
            ELSE hist.kept,
   storeFailed |-> hist.storeFailed \/ result = "StoreError"]

Finish(r, rec, result) ==
  /\ req' = [req EXCEPT ![r] = [rec EXCEPT !.pc = "done", !.result = result]]
  /\ last' = r
  /\ hist' = Recorded(rec, result)

\* a request takes the first free slot; started is the time a renewAll pass began
Begin(r, op, channelId, maxOps) ==
  /\ nops < maxOps
  /\ req[r].pc \in {"idle", "done"}
  /\ \A q \in Requests : SlotNo(q) < SlotNo(r) => InFlight(q)
  /\ req' = [req EXCEPT ![r] = [Idle EXCEPT !.op = op, !.channelId = channelId, !.pc = "get",
                                            !.started = IF op = "renewAll" THEN now ELSE 0]]
  /\ nops' = nops + 1
  /\ UNCHANGED <<impl, kv, now, last, push, hub, hist>>

(* ------------------------------- Init ----------------------------------- *)
\* the record of the last POST /callback: nothing yet
NoPush ==
  [phase |-> "none", present |-> FALSE, signature |-> <<>>, body |-> 0, verified |-> "notcalled",
   awaited |-> FALSE, sink |-> "ok", parsed |-> FALSE, outcome |-> "none", forwarded |-> 0,
   errorLogs |-> 0, raised |-> FALSE, link |-> "none", times |-> "none", response |-> "none"]

Init ==
  /\ impl \in Impls
  /\ kv \in {Absent, JsonArray(<<>>)}
  /\ req = [r \in Requests |-> Idle]
  /\ now = 0
  /\ nops = 0
  /\ last = "none"
  /\ push = NoPush
  /\ hub = NoHub
  /\ hist = NoHistory

Tick ==
  /\ now < MaxTime
  /\ now' = now + 1
  /\ UNCHANGED <<impl, kv, req, nops, last, push, hub, hist>>

(* -------------------- shared steps of the handlers ---------------------- *)
\* a put that keeps what the key holds and adds the writer's new entries
KVPut_merging(r) ==
  /\ req[r].pc = "put"
  /\ \E stored \in BOOLEAN :
       IF stored
       THEN /\ kv' = JSON_stringify(
                        GetAll(kv).list \o
                          SelectSeq(req[r].out,
                                    LAMBDA s : ChannelIdOf(s) \notin ChannelIds(GetAll(kv).list)))
            /\ Finish(r, [req[r] EXCEPT !.wrote = TRUE], "ok")
       ELSE /\ kv' = kv
            /\ Finish(r, req[r], "StoreError")
  /\ UNCHANGED <<impl, now, nops, push, hub>>

\* await env.KV.put(KEY, JSON.stringify(list)): the last step of add, remove
\* and renew; a rejected put propagates to the caller
KVPut(r) ==
  /\ req[r].pc = "put"
  /\ \E stored \in BOOLEAN :
       IF stored
       THEN /\ kv' = JSON_stringify(req[r].out)
            /\ Finish(r, [req[r] EXCEPT !.wrote = TRUE], "ok")
       ELSE /\ kv' = kv
            /\ Finish(r, req[r], "StoreError")
  /\ UNCHANGED <<impl, now, nops, push, hub>>

\* the store after the read: KV.delete ran or it did not
AfterGet(g) == IF g.del THEN Absent ELSE kv

\* one call of requestSubscription: the request sent and what the call gave
Sent(r, mode, channelId, callbackUrl, answer) ==
  [req[r] EXCEPT !.hubReqs = Append(@, HubBody(mode, channelId, callbackUrl)),
                 !.answer = answer]

\* the check of the hub's answer left out
SubscribeVerdict_lenient(subscribed) ==
  IF subscribed = "throw" THEN "FetchError" ELSE "continue"

\* if (!subscribed) throw new Error("Failed to subscribe!")
SubscribeVerdict(subscribed) ==
  IF subscribed = "throw" THEN "FetchError"
  ELSE IF subscribed = "false" THEN "SubscribeFailed"
  ELSE "continue"

\* the hub's refusal of the unsubscribe request not looked at
UnsubscribeVerdict_lenient(unsubscribed) ==
  IF unsubscribed = "throw" THEN "FetchError" ELSE "continue"

\* if (!unsubscribed) throw new Error("Failed to unsubscribe!")
UnsubscribeVerdict(unsubscribed) ==
  IF unsubscribed = "throw" THEN "FetchError"
  ELSE IF unsubscribed = "false" THEN "UnsubscribeFailed"
  ELSE "continue"

\* the new entry never pushed
Pushed_dropped(allSubscriptions, channelId, t) == allSubscriptions

\* allSubscriptions.push({ channelId, lastSubscribedAt: Date.now() })
Pushed(allSubscriptions, channelId, t) ==
  Append(allSubscriptions, [channelId |-> channelId, lastSubscribedAt |-> t])

\* subscriptions.push({ channelId, lastSubscribed: new Date() })
YoutubeNotifier_Pushed(subscriptions, channelId, t) ==
  Append(subscriptions, [channelId |-> channelId, lastSubscribed |-> [date |-> t]])

(* --------------------------- src/utils.ts ------------------------------- *)
addSubscription(r) ==
  /\ impl = "utils"
  /\ req[r].op = "add"
  /\ \/ /\ req[r].pc = "get"
        /\ LET g == getAllSubscriptions(kv) IN
             /\ kv' = AfterGet(g)
             /\ IF g.kind = "throw" THEN Finish(r, req[r], "SyntaxError")
                ELSE IF Find(g.list, req[r].channelId)
                THEN Finish(r, [req[r] EXCEPT !.subs = g.list], "ok")
                ELSE /\ req' = [req EXCEPT ![r].subs = g.list, ![r].pc = "hub"]
                     /\ UNCHANGED <<last, hist>>
        /\ UNCHANGED <<impl, now, nops, push, hub>>
     \/ /\ req[r].pc = "hub"
        /\ \E o \in FetchOutcomes :
             LET subscribed == requestSubscription(o)
                 rec == Sent(r, "subscribe", req[r].channelId, HttpsCallbackUrl, subscribed) IN
               /\ hub' = HubAfter(o, rec.hubReqs[Len(rec.hubReqs)])
               /\ IF SubscribeVerdict(subscribed) # "continue"
                  THEN Finish(r, rec, SubscribeVerdict(subscribed))
                  ELSE /\ req' = [req EXCEPT ![r] =
                             [rec EXCEPT !.pc = "put",
                                         !.out = Pushed(rec.subs, rec.channelId, now)]]
                       /\ UNCHANGED <<last, hist>>
        /\ UNCHANGED <<impl, kv, now, nops, push>>
     \/ KVPut(r)

removeSubscription(r) ==
  /\ impl = "utils"
  /\ req[r].op = "remove"
  /\ \/ /\ req[r].pc = "get"
        /\ LET g == getAllSubscriptions(kv) IN
             /\ kv' = AfterGet(g)
             /\ IF g.kind = "throw" THEN Finish(r, req[r], "SyntaxError")
                ELSE IF ~Find(g.list, req[r].channelId)
                THEN Finish(r, [req[r] EXCEPT !.subs = g.list], "ok")
                ELSE /\ req' = [req EXCEPT ![r].subs = g.list, ![r].pc = "hub"]
                     /\ UNCHANGED <<last, hist>>
        /\ UNCHANGED <<impl, now, nops, push, hub>>
     \/ /\ req[r].pc = "hub"
        /\ \E o \in FetchOutcomes :
             LET unsubscribed == requestSubscription(o)
                 rec == Sent(r, "unsubscribe", req[r].channelId, BareCallbackUrl, unsubscribed) IN
               /\ hub' = HubAfter(o, rec.hubReqs[Len(rec.hubReqs)])
               /\ IF UnsubscribeVerdict(unsubscribed) # "continue"
                  THEN Finish(r, rec, UnsubscribeVerdict(unsubscribed))
                  ELSE /\ req' = [req EXCEPT ![r] =
                             [rec EXCEPT !.pc = "put",
                                         !.out = SelectSeqBy(rec.subs, rec.channelId)]]
                       /\ UNCHANGED <<last, hist>>
        /\ UNCHANGED <<impl, kv, now, nops, push>>
     \/ KVPut(r)

\* renewedSubscriptions.push(subscription): the entry as it was read
RenewedEntry(subscription, t) == subscription

renewSubscriptionCronWorker(r) ==
  /\ impl = "utils"
  /\ req[r].op = "renewAll"
  /\ \/ /\ req[r].pc = "get"
        /\ LET g == getAllSubscriptions(kv) IN
             /\ kv' = AfterGet(g)
             /\ IF g.kind = "throw" THEN Finish(r, req[r], "SyntaxError")
                ELSE /\ req' = [req EXCEPT ![r].subs = g.list, ![r].i = 1,
                                           ![r].pc = IF g.list = <<>> THEN "put" ELSE "hub"]
                     /\ UNCHANGED <<last, hist>>
        /\ UNCHANGED <<impl, now, nops, push, hub>>
     \/ /\ req[r].pc = "hub"
        /\ \E o \in FetchOutcomes :
             LET subscription == req[r].subs[req[r].i]
                 subscribed == requestSubscription(o)
                 rec == Sent(r, "subscribe", ChannelIdOf(subscription), HttpsCallbackUrl,
                             subscribed) IN
               /\ hub' = HubAfter(o, rec.hubReqs[Len(rec.hubReqs)])
               /\ IF subscribed = "throw"
                  THEN Finish(r, [rec EXCEPT !.fails = @ + 1], "FetchError")
                  ELSE /\ req' = [req EXCEPT ![r] =
                             [rec EXCEPT !.reports = IF subscribed = "false" THEN @ + 1 ELSE @,
                                         !.fails = IF subscribed = "false" THEN @ + 1 ELSE @,
                                         !.out = Append(@, RenewedEntry(subscription, now)),
                                         !.i = @ + 1,
                                         !.pc = IF rec.i = Len(rec.subs) THEN "put" ELSE "hub"]]
                       /\ UNCHANGED <<last, hist>>
        /\ UNCHANGED <<impl, kv, now, nops, push>>
     \/ KVPut(r)

\* GET /api/subscriptions
listSubscriptions(r) ==
  /\ impl = "utils"
  /\ req[r].op = "listAll"
  /\ req[r].pc = "get"
  /\ LET g == getAllSubscriptions(kv) IN
       /\ kv' = AfterGet(g)
       /\ IF g.kind = "throw" THEN Finish(r, req[r], "SyntaxError")
          ELSE Finish(r, [req[r] EXCEPT !.subs = g.list], "ok")
  /\ UNCHANGED <<impl, now, nops, push, hub>>

(* ---------------------------- src/lib.ts -------------------------------- *)
\* what the handlers of the class do with the value getAllSubscriptions gave
\* them: .find and for..of raise a TypeError on a value that is no array
YoutubeNotifier_addSubscription(r) ==
  /\ impl = "lib"
  /\ req[r].op = "add"
  /\ \/ /\ req[r].pc = "get"
        /\ LET g == YoutubeNotifier_getAllSubscriptions(kv) IN
             /\ kv' = AfterGet(g)
             /\ IF g.kind = "throw" THEN Finish(r, req[r], "SyntaxError")
                ELSE IF g.kind = "nonarray" THEN Finish(r, req[r], "TypeError")
                ELSE IF Find(g.list, req[r].channelId)
                THEN Finish(r, [req[r] EXCEPT !.subs = g.list], "ok")
                ELSE /\ req' = [req EXCEPT ![r].subs = g.list, ![r].pc = "hub"]
                     /\ UNCHANGED <<last, hist>>
        /\ UNCHANGED <<impl, now, nops, push, hub>>
     \/ /\ req[r].pc = "hub"
        /\ \E o \in FetchOutcomes :
             LET subscribed == requestSubscription(o)
                 rec == Sent(r, "subscribe", req[r].channelId, HttpsCallbackUrl, subscribed) IN
               /\ hub' = HubAfter(o, rec.hubReqs[Len(rec.hubReqs)])
               /\ IF SubscribeVerdict(subscribed) # "continue"
                  THEN Finish(r, rec, SubscribeVerdict(subscribed))
                  ELSE /\ req' = [req EXCEPT ![r] =
                             [rec EXCEPT !.pc = "put",
                                         !.out = YoutubeNotifier_Pushed(rec.subs, rec.channelId, now)]]
                       /\ UNCHANGED <<last, hist>>
        /\ UNCHANGED <<impl, kv, now, nops, push>>
     \/ KVPut(r)

YoutubeNotifier_removeSubscription(r) ==
  /\ impl = "lib"
  /\ req[r].op = "remove"
  /\ \/ /\ req[r].pc = "get"
        /\ LET g == YoutubeNotifier_getAllSubscriptions(kv) IN
             /\ kv' = AfterGet(g)
             /\ IF g.kind = "throw" THEN Finish(r, req[r], "SyntaxError")
                ELSE IF g.kind = "nonarray" THEN Finish(r, req[r], "TypeError")
                ELSE IF ~Find(g.list, req[r].channelId)
                THEN Finish(r, [req[r] EXCEPT !.subs = g.list], "ok")
                ELSE /\ req' = [req EXCEPT ![r].subs = g.list, ![r].pc = "hub"]
                     /\ UNCHANGED <<last, hist>>
        /\ UNCHANGED <<impl, now, nops, push, hub>>
     \/ /\ req[r].pc = "hub"
        /\ \E o \in FetchOutcomes :
             LET unsubscribed == requestSubscription(o)
                 rec == Sent(r, "unsubscribe", req[r].channelId, HttpsCallbackUrl, unsubscribed) IN
               /\ hub' = HubAfter(o, rec.hubReqs[Len(rec.hubReqs)])
               /\ IF UnsubscribeVerdict(unsubscribed) # "continue"
                  THEN Finish(r, rec, UnsubscribeVerdict(unsubscribed))
                  ELSE /\ req' = [req EXCEPT ![r] =
                             [rec EXCEPT !.pc = "put",
                                         !.out = SelectSeqBy(rec.subs, rec.channelId)]]
                       /\ UNCHANGED <<last, hist>>
        /\ UNCHANGED <<impl, kv, now, nops, push>>
     \/ KVPut(r)

\* updatedSubscriptions.push({channelId, lastSubscribed: new Date()}); a
\* channelId that is undefined is left out by JSON.stringify
YoutubeNotifier_RenewedEntry(subscription, t) ==
  IF "channelId" \in DOMAIN subscription
  THEN [channelId |-> subscription.channelId, lastSubscribed |-> [date |-> t]]
  ELSE [lastSubscribed |-> [date |-> t]]

YoutubeNotifier_renewAll(r) ==
  /\ impl = "lib"
  /\ req[r].op = "renewAll"
  /\ \/ /\ req[r].pc = "get"
        /\ LET g == YoutubeNotifier_getAllSubscriptions(kv) IN
             /\ kv' = AfterGet(g)
             /\ IF g.kind = "throw" THEN Finish(r, req[r], "SyntaxError")
                ELSE IF g.kind = "nonarray" THEN Finish(r, req[r], "TypeError")
                ELSE /\ req' = [req EXCEPT ![r].subs = g.list, ![r].i = 1,
                                           ![r].pc = IF g.list = <<>> THEN "put" ELSE "hub"]
                     /\ UNCHANGED <<last, hist>>
        /\ UNCHANGED <<impl, now, nops, push, hub>>
     \/ /\ req[r].pc = "hub"
        /\ \E o \in FetchOutcomes :
             LET subscription == req[r].subs[req[r].i]
                 subscribed == requestSubscription(o)
                 rec == Sent(r, "subscribe", ChannelIdOf(subscription), HttpsCallbackUrl,
                             subscribed) IN
               /\ hub' = HubAfter(o, rec.hubReqs[Len(rec.hubReqs)])
               /\ IF subscribed = "throw"
                  THEN Finish(r, [rec EXCEPT !.fails = @ + 1], "FetchError")
                  ELSE /\ req' = [req EXCEPT ![r] =
                             [rec EXCEPT !.reports = IF subscribed = "false" THEN @ + 1 ELSE @,
                                         !.fails = IF subscribed = "false" THEN @ + 1 ELSE @,
                                         !.out = Append(@, YoutubeNotifier_RenewedEntry(subscription, now)),
                                         !.i = @ + 1,
                                         !.pc = IF rec.i = Len(rec.subs) THEN "put" ELSE "hub"]]
                       /\ UNCHANGED <<last, hist>>
        /\ UNCHANGED <<impl, kv, now, nops, push>>
     \/ KVPut(r)

\* GET /api/subscriptions
YoutubeNotifier_listSubscriptions(r) ==
  /\ impl = "lib"
  /\ req[r].op = "listAll"
  /\ req[r].pc = "get"
  /\ LET g == YoutubeNotifier_getAllSubscriptions(kv) IN
       /\ kv' = AfterGet(g)
       /\ IF g.kind = "throw" THEN Finish(r, req[r], "SyntaxError")
          ELSE IF g.kind = "nonarray" THEN Finish(r, req[r], "nonarray")
          ELSE Finish(r, [req[r] EXCEPT !.subs = g.list], "ok")
  /\ UNCHANGED <<impl, now, nops, push, hub>>

(* ------------------------ requests coming in ---------------------------- *)
Ops == {"add", "remove", "renewAll", "listAll"}

\* a management request or the scheduled trigger starts while others may
\* still be between two awaits
Start(r) ==
  \E op \in Ops, channelId \in Channels \cup {"none"} :
    /\ op \in {"renewAll", "listAll"} <=> channelId = "none"
    /\ Begin(r, op, channelId, MaxOps)

\* the same, one operation at a time
StartSeq(r) ==
  /\ \A q \in Requests : ~InFlight(q)
  /\ \E op \in Ops, channelId \in Channels \cup {"none"} :
       /\ op \in {"renewAll", "listAll"} <=> channelId = "none"
       /\ Begin(r, op, channelId, MaxSeqOps)

Handlers(r) ==
  \/ addSubscription(r)
  \/ removeSubscription(r)
  \/ renewSubscriptionCronWorker(r)
  \/ listSubscriptions(r)
  \/ YoutubeNotifier_addSubscription(r)
  \/ YoutubeNotifier_removeSubscription(r)
  \/ YoutubeNotifier_renewAll(r)
  \/ YoutubeNotifier_listSubscriptions(r)

Next ==
  \/ Tick
  \/ \E r \in Requests : Start(r)
  \/ \E r \in Requests : Handlers(r)

NextSeq ==
  \/ Tick
  \/ \E r \in Requests : StartSeq(r)
  \/ \E r \in Requests : Handlers(r)

Spec == Init /\ [][Next]_vars

SpecSeq == Init /\ [][NextSeq]_vars

(* ----------------------- signature verification ------------------------ *)
\* Strings the verifier takes apart are sequences of one-character strings.
Lower(ch) ==
  CASE ch = "F" -> "f" [] ch = "O" -> "o" [] ch = "S" -> "s" [] ch = "H" -> "h"
    [] ch = "A" -> "a" [] ch = "B" -> "b" [] OTHER -> ch

Upper(ch) ==
  CASE ch = "f" -> "F" [] ch = "o" -> "O" [] ch = "s" -> "S" [] ch = "h" -> "H"
    [] ch = "a" -> "A" [] ch = "b" -> "B" [] OTHER -> ch

\* String.prototype.toLowerCase / toUpperCase
toLowerCase(str) == [k \in DOMAIN str |-> Lower(str[k])]
toUpperCase(str) == [k \in DOMAIN str |-> Upper(str[k])]

\* the index of the first occurrence of pat in str at or after k, 0 if none
RECURSIVE IndexOf(_, _, _)
IndexOf(str, pat, k) ==
  IF k + Len(pat) - 1 > Len(str) THEN 0
  ELSE IF SubSeq(str, k, k + Len(pat) - 1) = pat THEN k
  ELSE IndexOf(str, pat, k + 1)

\* String.prototype.split("="): every "=" separates
RECURSIVE split(_)
split(str) ==
  LET k == IndexOf(str, <<"=">>, 1) IN
    IF k = 0 THEN <<str>>
    ELSE <<SubSeq(str, 1, k - 1)>> \o split(SubSeq(str, k + 1, Len(str)))

\* String.prototype.replace(pat, rep) with a string pattern: the first match
replace(str, pat, with) ==
  LET k == IndexOf(str, pat, 1) IN
    IF k = 0 THEN str
    ELSE SubSeq(str, 1, k - 1) \o with \o SubSeq(str, k + Len(pat), Len(str))

SHA_1 == <<"S", "H", "A", "-", "1">>
SHA_256 == <<"S", "H", "A", "-", "2", "5", "6">>

\* the hash names crypto.subtle.importKey recognizes for HMAC (matched
\* without regard to case); any other name is a NotSupportedError
RecognizedHash(name) == toUpperCase(name) \in {SHA_1, SHA_256}

\* the pushed documents are told apart by their number
BodyDigit(body) == <<"0", "1", "2", "3", "4", "5", "6", "7", "8", "9">>[body + 1]

\* crypto.subtle.sign under env.API_SECRET, then the bytes as lower-case hex:
\* a digest that differs with the hash and with the body
HmacHex(hashName, body) ==
  <<IF toUpperCase(hashName) = SHA_1 THEN "a" ELSE "b", BodyDigit(body)>>

\* verifyNotificationSignature of src/utils.ts: "true", "false", or "throw"
\* when importKey rejects
verifyNotificationSignature(signature, body) ==
  LET parts == [k \in DOMAIN split(signature) |-> toLowerCase(split(signature)[k])]
      algo == parts[1]
      hashName == toUpperCase(algo) IN
    IF ~RecognizedHash(hashName) THEN "throw"
    ELSE IF Len(parts) >= 2 /\ toLowerCase(HmacHex(hashName, body)) = parts[2] THEN "true"
    ELSE "false"

\* verifyNotificationSignature of src/lib.ts: SHA becomes SHA- before
\* importKey; matchingParts.toLowerCase() is a TypeError when there is no "="
YoutubeNotifier_verifyNotificationSignature(signature, body) ==
  LET parts == split(signature)
      algo == parts[1]
      hashName == replace(toUpperCase(algo), <<"S", "H", "A">>, <<"S", "H", "A", "-">>) IN
    IF ~RecognizedHash(hashName) THEN "throw"
    ELSE IF Len(parts) < 2 THEN "throw"
    ELSE IF toLowerCase(HmacHex(hashName, body)) = toLowerCase(parts[2]) THEN "true"
    ELSE "false"

(* --------------------------- POST /callback ----------------------------- *)
\* What XMLParser.parse gives for the pushed document: whether there is a
\* feed node, whether it holds at:deleted-entry, and its entry: none, one
\* with every field the handlers read ("complete"), or one that lacks a
\* field ("incomplete": no title); link says whether the entry has a link
\* node.  dates is what published and updated are after parsing: the parser
\* gives "text", never a Date object.
Feeds ==
  << [feed |-> TRUE, deleted |-> FALSE, entry |-> "complete", link |-> TRUE, dates |-> "text"],
     [feed |-> TRUE, deleted |-> FALSE, entry |-> "complete", link |-> FALSE, dates |-> "text"],
     [feed |-> TRUE, deleted |-> FALSE, entry |-> "incomplete", link |-> TRUE, dates |-> "text"],
     [feed |-> TRUE, deleted |-> TRUE, entry |-> "none", link |-> FALSE, dates |-> "text"],
     [feed |-> TRUE, deleted |-> TRUE, entry |-> "complete", link |-> TRUE, dates |-> "text"],
     [feed |-> TRUE, deleted |-> FALSE, entry |-> "none", link |-> FALSE, dates |-> "text"],
     [feed |-> FALSE, deleted |-> FALSE, entry |-> "none", link |-> FALSE, dates |-> "text"] >>

Bodies == 1..Len(Feeds)

\* the algorithm names and digests a header may carry
AlgoTexts ==
  { <<"s", "h", "a", "1">>, <<"S", "H", "A", "1">>, <<"s", "h", "a", "2", "5", "6">>,
    <<"s", "h", "a", "-", "1">>, <<"f", "o", "o">> }

DigestTexts ==
  {HmacHex(h, b) : h \in {SHA_1, SHA_256}, b \in Bodies}
    \cup {toUpperCase(HmacHex(SHA_1, b)) : b \in Bodies}

\* x-hub-signature: absent, empty, a name alone, name=digest, name=digest=more
Signatures ==
  { [present |-> FALSE, text |-> <<>>], [present |-> TRUE, text |-> <<>>] }
    \cup {[present |-> TRUE, text |-> a \o <<"=">> \o d] : a \in AlgoTexts, d \in DigestTexts}
    \cup {[present |-> TRUE, text |-> <<"s", "h", "a", "2", "5", "6">>]}
    \cup {[present |-> TRUE, text |-> <<"s", "h", "a", "-", "1", "=">> \o d \o <<"=", "0">>] :
             d \in {HmacHex(SHA_1, 1)}}

\* !signature: the header is missing or the empty string
Falsy(sig) == ~sig.present \/ sig.text = <<>>

\* what the handlers do when an awaited fetch to the Discord webhook ends in
\* outcome: a rejected fetch rejects discordLog and whoever awaits it; a
\* response with an error status is not looked at
SinkRaises(outcome) == outcome = "network"

\* the link of the message part_001 builds: video.link["@_href"].  The parser
\* was made without options and leaves attributes out, so the link node is
\* the empty text and the message falls back to "*Link unavailable*".
Part001_Link(doc) == "unavailable"

\* the handler of src/unnamed/part_001 after its signature gate: the branch it
\* took, what it answers, whether sendDiscordNotification ran and with which
\* link and timestamps, whether an error reached onError and was reported
Part001_Process(doc, sink) ==
  LET quiet == [forwarded |-> 0, errorLogs |-> 0, raised |-> FALSE, response |-> "OK",
                link |-> "none", times |-> "none"]
      thrown == [forwarded |-> 0, errorLogs |-> 1, raised |-> TRUE,
                 response |-> "Something went wrong", link |-> "none", times |-> "none"] IN
  IF ~doc.feed THEN [outcome |-> "error"] @@ thrown
  ELSE IF doc.deleted THEN [outcome |-> "DeletedEntry"] @@ quiet
  ELSE IF doc.entry = "none" THEN [outcome |-> "Empty"] @@ quiet
  ELSE IF ~doc.link THEN [outcome |-> "error"] @@ thrown
  ELSE [outcome |-> "VideoNotification", forwarded |-> 1, link |-> Part001_Link(doc),
        times |-> "epochms",
        errorLogs |-> IF SinkRaises(sink) THEN 1 ELSE 0,
        raised |-> SinkRaises(sink),
        response |-> IF SinkRaises(sink) THEN "Something went wrong" ELSE "OK"]

\* the gate of part_001: !verifyNotificationSignature(...) negates the
\* promise the async function returns, which is never falsy
Part001_Rejects(sig, verified) == Falsy(sig)

\* POST /callback of src/unnamed/part_001
Post_callback(sig, body, sink) ==
  /\ impl = "utils"
  /\ push.phase = "none"
  /\ LET verified == IF Falsy(sig) THEN "notcalled"
                     ELSE verifyNotificationSignature(sig.text, body)
         base == [phase |-> "done", present |-> sig.present, signature |-> sig.text,
                  body |-> body, verified |-> verified, awaited |-> FALSE,
                  sink |-> sink] IN
       IF Part001_Rejects(sig, verified)
       THEN push' = base @@ [parsed |-> FALSE, outcome |-> "rejected", forwarded |-> 0,
                             errorLogs |-> 0, raised |-> FALSE, link |-> "none",
                             times |-> "none", response |-> "Invalid Signature"]
       ELSE push' = base @@ [parsed |-> TRUE] @@ Part001_Process(Feeds[body], sink)
  /\ UNCHANGED <<impl, kv, req, now, nops, last, hub, hist>>

\* v.safeParse(callbackSchema, data) followed by the transform: "fail", or
\* the branch of the transform that gave the output: "deleted" and "noentry"
\* give null, "video" gives the notification.  The entry schema wants every
\* field, and published and updated as Date objects (v.date()).
callbackSchema(doc) ==
  IF ~doc.feed THEN "fail"
  ELSE IF doc.deleted THEN "deleted"
  ELSE IF doc.entry = "none" THEN "noentry"
  ELSE IF doc.entry = "complete" /\ doc.dates = "date" THEN "video"
  ELSE "fail"

\* YoutubeNotifier.callback after its signature gate, and the then or catch
\* of the route around it
YoutubeNotifier_Process(doc, sink) ==
  LET quiet == [forwarded |-> 0, errorLogs |-> 0, raised |-> FALSE, response |-> "OK",
                link |-> "none", times |-> "none"]
      parsed == callbackSchema(doc) IN
  IF parsed = "fail" THEN [outcome |-> "ignore"] @@ quiet
  ELSE IF parsed = "deleted" THEN [outcome |-> "DeletedEntry"] @@ quiet
  ELSE IF parsed = "noentry" THEN [outcome |-> "Empty"] @@ quiet
  ELSE [outcome |-> "VideoNotification", forwarded |-> 1, link |-> "watch",
        times |-> "epochms", errorLogs |-> 0,
        raised |-> SinkRaises(sink),
        response |-> IF SinkRaises(sink) THEN "Error" ELSE "OK"]

\* the gate of YoutubeNotifier.callback: the awaited verdict decides
YoutubeNotifier_Rejects(sig, verified) == Falsy(sig) \/ verified # "true"

\* YoutubeNotifier.callback behind POST /callback of src/unnamed/part_000
YoutubeNotifier_callback(sig, body, sink) ==
  /\ impl = "lib"
  /\ push.phase = "none"
  /\ LET verified == IF Falsy(sig) THEN "notcalled"
                     ELSE YoutubeNotifier_verifyNotificationSignature(sig.text, body)
         base == [phase |-> "done", present |-> sig.present, signature |-> sig.text,
                  body |-> body, verified |-> verified, awaited |-> TRUE,
                  sink |-> sink] IN
       IF YoutubeNotifier_Rejects(sig, verified)
       THEN push' = base @@ [parsed |-> FALSE, outcome |-> "rejected", forwarded |-> 0,
                             errorLogs |-> 0, raised |-> TRUE, link |-> "none",
                             times |-> "none", response |-> "Error"]
       ELSE push' = base @@ [parsed |-> TRUE] @@ YoutubeNotifier_Process(Feeds[body], sink)
  /\ UNCHANGED <<impl, kv, req, now, nops, last, hub, hist>>

\* the response has gone out; the next push is handled from scratch
Replied ==
  /\ push.phase = "done"
  /\ push' = NoPush
  /\ UNCHANGED <<impl, kv, req, now, nops, last, hub, hist>>

NextPush ==
  \/ Replied
  \/ \E sig \in Signatures, body \in Bodies, sink \in FetchOutcomes :
        Post_callback(sig, body, sink)
  \/ \E sig \in Signatures, body \in Bodies, sink \in FetchOutcomes :
        YoutubeNotifier_callback(sig, body, sink)

SpecPush == Init /\ [][NextPush]_vars

(* --------------- a store that holds anything at all --------------------- *)
\* entries a stored array may hold: the shape of utils.ts, the shape of
\* lib.ts (no lastSubscribedAt), and an object without channelId
StoredItems ==
  { [channelId |-> "UCa", lastSubscribedAt |-> 0],
    [channelId |-> "UCa", lastSubscribed |-> [iso |-> 0]],
    [lastSubscribedAt |-> 0] }

StoredBlobs ==
  {Absent, EmptyString, Garbage, JsonObject, JsonArray(<<>>)}
    \cup {JsonArray(<<a>>) : a \in StoredItems}
    \cup {JsonArray(<<a, b>>) : a \in {[channelId |-> "UCb", lastSubscribedAt |-> 0]},
                               b \in StoredItems}

InitAnyStore ==
  /\ impl \in Impls
  /\ kv \in StoredBlobs
  /\ req = [r \in Requests |-> Idle]
  /\ now = 0
  /\ nops = 0
  /\ last = "none"
  /\ push = NoPush
  /\ hub = NoHub
  /\ hist = NoHistory

SpecAnyStore == InitAnyStore /\ [][NextSeq]_vars

(* ------------------------------ claims ---------------------------------- *)
\* what listAll returns for the store as it is now
ListAllNow == GetAll(kv).list

\* the request that completed last, in a run of one operation at a time
Completed(r, op) == last = r /\ req[r].op = op /\ req[r].pc = "done"

\* C1: the persisted registry never holds two entries with the same
\* channelId, whatever the interleaving of add, remove and renewAll.
C1_AtMostOnePerChannel ==
  \A c \in Channels : CountOf(kv.items, c) <= 1

\* two adds of the same channel raced, both wrote, and the channel is stored
C1_Witness ==
  /\ req["r1"].op = "add" /\ req["r2"].op = "add"
  /\ req["r1"].channelId = req["r2"].channelId
  /\ req["r1"].wrote /\ req["r2"].wrote
  /\ req["r1"].pc = "done" /\ req["r2"].pc = "done"
  /\ CountOf(kv.items, req["r1"].channelId) = 1

\* C2: add of an absent channelId with a successful hub call leaves exactly
\* one entry for it in listAll; add of a present channelId succeeds with no
\* hub request and no store write, and listAll is what it was.
C2_AddThenList ==
  \A r \in Requests :
    Completed(r, "add") =>
      /\ (~Find(req[r].subs, req[r].channelId) /\ req[r].result = "ok")
           => /\ req[r].answer = "true"
              /\ CountOf(ListAllNow, req[r].channelId) = 1
      /\ Find(req[r].subs, req[r].channelId)
           => /\ req[r].result = "ok"
              /\ req[r].hubReqs = <<>>
              /\ ~req[r].wrote
              /\ ListAllNow = req[r].subs

\* an add of a channel that was already stored has completed, after an add
\* that stored it
C2_Witness ==
  \E r \in Requests :
    /\ Completed(r, "add")
    /\ Find(req[r].subs, req[r].channelId)
    /\ nops >= 2

\* C3: remove of a present channelId with a successful hub call leaves no
\* entry for it in listAll; remove of an absent channelId succeeds with no
\* hub request and no store write.
C3_RemoveThenList ==
  \A r \in Requests :
    Completed(r, "remove") =>
      /\ (Find(req[r].subs, req[r].channelId) /\ req[r].result = "ok")
           => /\ req[r].answer = "true"
              /\ ~Find(ListAllNow, req[r].channelId)
      /\ ~Find(req[r].subs, req[r].channelId)
           => /\ req[r].result = "ok"
              /\ req[r].hubReqs = <<>>
              /\ ~req[r].wrote
              /\ ListAllNow = req[r].subs

\* a remove of a stored channel went through the hub and the store, with
\* another channel left in the registry
C3_Witness ==
  \E r \in Requests :
    /\ Completed(r, "remove")
    /\ Find(req[r].subs, req[r].channelId)
    /\ req[r].result = "ok"
    /\ req[r].wrote
    /\ ListAllNow # <<>>

\* C4: when the hub client reports failure during add or remove, the
\* operation ends in SubscribeFailed / UnsubscribeFailed, nothing is written
\* and listAll is what it was before the call.
C4_HubFailureLeavesRegistry ==
  \A r \in Requests :
    /\ (Completed(r, "add") /\ req[r].answer = "false")
         => /\ req[r].result = "SubscribeFailed"
            /\ ~req[r].wrote
            /\ ListAllNow = req[r].subs
    /\ (Completed(r, "remove") /\ req[r].answer = "false")
         => /\ req[r].result = "UnsubscribeFailed"
            /\ ~req[r].wrote
            /\ ListAllNow = req[r].subs

\* a remove of a stored channel was refused by the hub
C4_Witness ==
  \E r \in Requests :
    /\ Completed(r, "remove")
    /\ req[r].answer = "false"
    /\ Find(ListAllNow, req[r].channelId)

\* lastSubscribedAt of a stored entry (lastSubscribed, an ISO date, in lib.ts)
Stamp(s) ==
  IF "lastSubscribedAt" \in DOMAIN s THEN s.lastSubscribedAt ELSE s.lastSubscribed.iso

\* C5: a renewAll pass run alone completes without raising whichever hub
\* calls fail, persists the same set of channelIds, and emits one failure
\* report per failed hub call (a failed store write aside).
C5_RenewPassSurvivesHubFailures ==
  \A r \in Requests :
    (Completed(r, "renewAll") /\ req[r].result # "StoreError") =>
      /\ req[r].result = "ok"
      /\ ChannelIds(ListAllNow) = ChannelIds(req[r].subs)
      /\ req[r].reports = req[r].fails

\* C6: after a renewAll pass every persisted entry carries a lastSubscribedAt
\* not earlier than the start of the pass.
C6_RenewRefreshesStamps ==
  \A r \in Requests :
    (Completed(r, "renewAll") /\ req[r].result = "ok") =>
      \A k \in DOMAIN kv.items : Stamp(kv.items[k]) >= req[r].started

\* C10: requestSubscription gives true or false for every outcome of the
\* request, a network failure included; nothing propagates to its caller.
C10_HubClientNeverRaises ==
  \A r \in Requests : req[r].answer \in {"none", "true", "false"}

\* the stored blob is a JSON array of {channelId, lastSubscribedAt}
ValidRegistryBlob(blob) ==
  /\ blob.tag = "array"
  /\ \A k \in DOMAIN blob.items : SubscriptionSchemaOK(blob.items[k])

\* C7: listAll never surfaces an error; on an absent key it returns the
\* empty list, and on a blob that is no valid registry array (text that is
\* not JSON included) it deletes the key and returns the empty list.  So
\* after listAll the key is absent (or empty) with nothing returned, or holds
\* the valid array that was returned.
C7_ListAllSelfHeals ==
  \A r \in Requests :
    Completed(r, "listAll") =>
      /\ req[r].result = "ok"
      /\ \/ kv.tag \in {"absent", "emptystr"} /\ req[r].subs = <<>>
         \/ ValidRegistryBlob(kv) /\ req[r].subs = kv.items

\* what the claims call a signature that verifies: a supported algorithm
\* name, "=", and the hex HMAC of the body under that algorithm, compared
\* without regard to case
SupportedAlgos == { <<"s", "h", "a", "1">>, <<"s", "h", "a", "2", "5", "6">> }

HashOf(algo) == IF algo = <<"s", "h", "a", "1">> THEN SHA_1 ELSE SHA_256

SignatureVerifies(present, text, body) ==
  /\ present
  /\ \E algo \in SupportedAlgos :
       toLowerCase(text) = algo \o <<"=">> \o HmacHex(HashOf(algo), body)

\* C8: a push whose x-hub-signature is missing or does not verify is
\* rejected before the feed is parsed, and nothing is forwarded.
C8_UnsignedPushRejected ==
  (push.phase = "done" /\ ~SignatureVerifies(push.present, push.signature, push.body))
    => (~push.parsed /\ push.forwarded = 0)

\* C9: verify never raises, and is true exactly for algorithm=hexdigest with
\* a supported algorithm and the matching digest.
C9_VerifyIsTotalAndExact ==
  (push.phase = "done" /\ push.verified # "notcalled") =>
    /\ push.verified \in {"true", "false"}
    /\ push.verified = "true" <=> SignatureVerifies(push.present, push.signature, push.body)

(* ------------------------ the pushed feed document ----------------------- *)
\* the class the push pipeline is to give a parsed document: the deletion
\* marker first, then a whole entry, then no entry; anything else is ignored
FeedClass(doc) ==
  IF ~doc.feed THEN "ignore"
  ELSE IF doc.deleted THEN "DeletedEntry"
  ELSE IF doc.entry = "complete" THEN "VideoNotification"
  ELSE IF doc.entry = "none" THEN "Empty"
  ELSE "ignore"

\* a push whose signature is the HMAC of its body has been handled
VerifiedPushHandled ==
  /\ push.phase = "done"
  /\ push.parsed
  /\ SignatureVerifies(push.present, push.signature, push.body)

\* C11: every pushed document is classified, in this order: DeletedEntry when
\* it holds the deletion marker, else VideoNotification when its entry has
\* every field, else Empty when it has no entry, and ignore when it has no
\* feed node or its entry lacks a field; no document makes the pipeline raise.
C11_FeedClassifiedInOrder ==
  (VerifiedPushHandled /\ push.sink = "ok") =>
     /\ push.outcome = FeedClass(Feeds[push.body])
     /\ ~push.raised

\* C12: a feed whose entry has video id, title, channel id, author name and
\* uri, published and updated (dates as text) gives a VideoNotification whose
\* link is the watch URL made from the video id and whose timestamps are the
\* epoch milliseconds of the date texts.
C12_NotificationFromEntry ==
  (/\ VerifiedPushHandled
   /\ Feeds[push.body].feed
   /\ ~Feeds[push.body].deleted
   /\ Feeds[push.body].entry = "complete") =>
     /\ push.forwarded = 1
     /\ push.link = "watch"
     /\ push.times = "epochms"

\* C15: a push that passes the signature check sends exactly one message to
\* the Discord webhook when its feed is a VideoNotification and none when it
\* is a DeletedEntry, Empty or ignored.
C15_OneMessagePerVideo ==
  (VerifiedPushHandled /\ push.sink = "ok") =>
     push.forwarded + push.errorLogs =
        IF FeedClass(Feeds[push.body]) = "VideoNotification" THEN 1 ELSE 0

\* C16: when the webhook call that forwards a VideoNotification fails, the
\* pipeline still completes without an error and the push is answered "OK".
C16_SinkFailureNotEscalated ==
  (push.phase = "done" /\ push.forwarded = 1 /\ push.sink # "ok") =>
     /\ ~push.raised
     /\ push.response = "OK"

(* --------------------- interleaved registry operations ------------------- *)
\* C13: when registry operations interleave their read-modify-write, the
\* stored blob is exactly the list of whichever operation wrote last; nothing
\* of what another operation wrote in between is merged into it.
C13_LastWriterWins ==
  \A r \in Requests :
     (last = r /\ req[r].pc = "done" /\ req[r].wrote) => kv = JSON_stringify(req[r].out)

\* a lost update: an add that returned success after writing, and whose
\* channel the store no longer holds because a later add of another channel
\* wrote the list it had read before
C13_Witness ==
  \E r, q \in Requests :
     /\ r # q
     /\ req[r].op = "add" /\ req[r].pc = "done"
     /\ req[r].result = "ok" /\ req[r].wrote
     /\ req[q].op = "add" /\ req[q].pc = "done"
     /\ req[q].result = "ok" /\ req[q].wrote
     /\ req[q].channelId # req[r].channelId
     /\ last = q
     /\ req[r].channelId \notin ChannelIds(ListAllNow)

(* ----------------------------- the renew pass ---------------------------- *)
\* C14: a renewAll pass over N subscriptions sends exactly N subscribe
\* requests to the hub, one per subscription in list order and one after the
\* other, then writes the store exactly once after the last hub call and
\* ends; when that write fails the failure reaches the caller.
C14_RenewPassShape ==
  \A r \in Requests :
     req[r].op = "renewAll" =>
        /\ req[r].pc = "hub" => (Len(req[r].hubReqs) = req[r].i - 1 /\ ~req[r].wrote)
        /\ req[r].pc = "put" => (Len(req[r].hubReqs) = Len(req[r].subs) /\ ~req[r].wrote)
        /\ req[r].pc = "done" =>
              /\ Len(req[r].hubReqs) = Len(req[r].subs)
              /\ \A k \in 1..Len(req[r].hubReqs) :
                    /\ req[r].hubReqs[k].mode = "subscribe"
                    /\ req[r].hubReqs[k].topic = <<BASE_TOPIC_URL, ChannelIdOf(req[r].subs[k])>>
              /\ req[r].result \in {"ok", "StoreError"}
              /\ req[r].wrote <=> req[r].result = "ok"

(* ---------------------- the registry as a set of channels ---------------- *)
EntriesOf(list, channelId) == SelectSeq(list, LAMBDA s : ChannelIdOf(s) = channelId)

\* C17: in a sequential run of add, remove and renewAll from an empty store,
\* with any hub outcomes and no store failure, the channels of the persisted
\* registry are exactly those whose latest successful registry-changing
\* operation was an add (so a failed add or remove and a renewAll leave that
\* set alone), and an add or remove of one channel leaves the entries of
\* every other channel as they were.
C17_RegistryIsSetOfAddedChannels ==
  ~hist.storeFailed =>
     /\ ChannelIds(ListAllNow) = hist.kept
     /\ \A r \in Requests :
           ((Completed(r, "add") \/ Completed(r, "remove")) /\ req[r].wrote) =>
              \A c \in Channels \ {req[r].channelId} :
                 EntriesOf(ListAllNow, c) = EntriesOf(req[r].subs, c)

\* four operations in, UCa and UCb have been added and UCa removed again: the
\* registry holds UCb alone
C17_Witness ==
  /\ ~hist.storeFailed
  /\ nops = 4
  /\ \E r \in Requests :
        Completed(r, "remove") /\ req[r].result = "ok" /\ req[r].channelId = "UCa"
  /\ hist.kept = {"UCb"}
  /\ ChannelIds(ListAllNow) = {"UCb"}

(* ------------------------- registry and hub ------------------------------ *)
\* C18: the unsubscribe request of remove names the same hub.callback and
\* hub.topic as the subscribe requests of add and renewAll for that channel:
\* whatever subscription the hub holds for the topic was made with the
\* callback the unsubscribe request carries.
C18_UnsubscribeNamesSubscription ==
  \A r \in Requests :
     (req[r].op = "remove" /\ req[r].hubReqs # <<>>) =>
        LET unsubscribe == req[r].hubReqs[1] IN
          /\ unsubscribe.topic = <<BASE_TOPIC_URL, req[r].channelId>>
          /\ \A held \in hub.active :
                held[2] = unsubscribe.topic => held[1] = unsubscribe.callback
\* no management request and no renew pass is between two awaits
Quiescent == \A r \in Requests : ~InFlight(r)

====
